---- MODULE Spec2Model ----
(***************************************************************************)
(* csv-media-viewer: the two React components of the repository.           *)
(*                                                                         *)
(*   MediaViewer    (src/src/ui/media-viewer.tsx)                          *)
(*   CSVMediaViewer (src/unnamed/part_000)                                 *)
(*                                                                         *)
(* A component's state is its useState cells; its operations are its event *)
(* handlers, its effects and the callbacks of the asynchronous calls it    *)
(* starts (fetch, Papa.parse).  The browser dispatches them one at a time, *)
(* so every handler is one atomic action.                                  *)
(*                                                                         *)
(* A nullable JavaScript value (T | null, T | undefined) is a sequence of  *)
(* length at most one: None is null/undefined, Some(x) is x.               *)
(***************************************************************************)
EXTENDS Integers, Sequences, FiniteSets, TLC

None == <<>>
Some(x) == <<x>>
Get(o) == o[1]

(***************************************************************************)
(* Bounds of the model.                                                    *)
(***************************************************************************)
\* fetches of MediaViewer that may be in flight together
MaxFetches == 3
\* Papa.parse calls of CSVMediaViewer that may be in flight together
MaxParses == 2

(***************************************************************************)
(* State.                                                                  *)
(***************************************************************************)
\* MediaViewer
VARIABLES
  mediaUrl,     \* the mediaUrl prop of the mounted component
  mediaType,    \* useState<"image" | "video" | null>("image")
  mediaError,   \* useState<string | null>(null): the component's `error`
  fetches,      \* the getMediaType() calls whose fetch has not settled:
                \* a sequence of [url, current]; `current` is history, true
                \* of the call started for the present value of mediaUrl
  settled,      \* history: the outcome of the call started for the present
                \* mediaUrl once it has settled, None before
  mediaLast     \* history: the last MediaViewer step and its response

mediaVars == <<mediaUrl, mediaType, mediaError, fetches, settled, mediaLast>>

\* CSVMediaViewer
VARIABLES
  file,              \* useState<File | null>(null): the file's name stands
                     \* for the File
  data,              \* useState<CSVRow[]>([])
  urlColumn,         \* useState<string>("")
  selectedRow,       \* useState<CSVRow | null>(null)
  columns,           \* useState<string[]>([])
  error,             \* useState<string>(""): the banner
  isProcessing,      \* useState<boolean>(false)
  validationErrors,  \* useState<ValidationErrors>({})
  fileName,          \* useState<string>("")
  parses,            \* the Papa.parse calls whose callback has not fired: a
                     \* sequence of [file, urlColumn, stale]; file and
                     \* urlColumn are what the callbacks' closure holds,
                     \* `stale` is history, true once another file was chosen
  awaiting,          \* history: a file was chosen and no parse started for
                     \* it has completed yet
  tableColumn,       \* history: the urlColumn the rows in data were parsed with
  clickedColumn,     \* history: tableColumn when the selected row was clicked
  csvLast            \* history: the last CSVMediaViewer step

csvVars ==
  <<file, data, urlColumn, selectedRow, columns, error, isProcessing,
    validationErrors, fileName, parses, awaiting, tableColumn, clickedColumn,
    csvLast>>

vars == <<mediaVars, csvVars>>

(***************************************************************************)
(* JavaScript strings.                                                     *)
(***************************************************************************)
\* String.prototype.startsWith
StartsWith(s, p) == Len(s) >= Len(p) /\ SubSeq(s, 1, Len(p)) = p

Char(s, i) == SubSeq(s, i, i)

WhiteSpace == {" "}

RECURSIVE TrimStart(_)
TrimStart(s) ==
  IF Len(s) > 0 /\ Char(s, 1) \in WhiteSpace
  THEN TrimStart(SubSeq(s, 2, Len(s)))
  ELSE s

RECURSIVE TrimEnd(_)
TrimEnd(s) ==
  IF Len(s) > 0 /\ Char(s, Len(s)) \in WhiteSpace
  THEN TrimEnd(SubSeq(s, 1, Len(s) - 1))
  ELSE s

\* String.prototype.trim
Trim(s) == TrimEnd(TrimStart(s))

(***************************************************************************)
(* MediaViewer                                                             *)
(***************************************************************************)
\* the URLs the parent passes as mediaUrl
Urls == {"http://a/x.png", "http://a/y.mp4"}

\* the content-type header of a response: None when the header is missing
ContentTypes ==
  { None, Some(""), Some("image"), Some("image/png"), Some("imag"),
    Some("Image/png"), Some("video/mp4"), Some("video"), Some("text/html"),
    Some("application/video") }

\* what a fetch settles to: a response with its header, or a rejection
Responses ==
  { [rejected |-> FALSE, contentType |-> c] : c \in ContentTypes }
    \cup { [rejected |-> TRUE, contentType |-> None] }

\* contentType?.startsWith(p): false when the header is null
OptStartsWith(c, p) == c # None /\ StartsWith(Get(c), p)

\* fetchMediaType: the value the promise resolves to, or "throw" when it
\* rejects (fetch rejected, or "Unsupported media type")
fetchMediaType(resp) ==
  IF resp.rejected THEN "throw"
  ELSE IF OptStartsWith(resp.contentType, "image") THEN "image"
  ELSE IF OptStartsWith(resp.contentType, "video") THEN "video"
  ELSE "throw"

\* the try branch of getMediaType
GetMediaTypeTry(type) ==
  /\ mediaType' = type
  /\ mediaError' = None

\* mutant: the catch branch logs the error and sets no state
GetMediaTypeCatchSilent == UNCHANGED <<mediaType, mediaError>>

\* the catch branch of getMediaType
GetMediaTypeCatch ==
  /\ mediaError' = Some("Error fetching media type")
  /\ UNCHANGED mediaType

\* what one settled getMediaType() call does to the state
GetMediaTypeSettle(resp) ==
  IF fetchMediaType(resp) = "throw"
  THEN GetMediaTypeCatch
  ELSE GetMediaTypeTry(fetchMediaType(resp))

\* useEffect(..., [mediaUrl]): the effect runs when the dependency changed
EffectRuns(u) == u # mediaUrl

RemoveAt(s, i) == SubSeq(s, 1, i - 1) \o SubSeq(s, i + 1, Len(s))

\* the parent re-renders MediaViewer with mediaUrl = u
SetMediaUrl(u) ==
  /\ EffectRuns(u) => Len(fetches) < MaxFetches
  /\ mediaUrl' = u
  /\ IF EffectRuns(u)
     THEN /\ fetches' =
               Append([i \in 1..Len(fetches) |->
                         [fetches[i] EXCEPT !.current = FALSE]],
                      [url |-> u, current |-> TRUE])
          /\ settled' = None
     ELSE UNCHANGED <<fetches, settled>>
  /\ mediaLast' = [kind |-> "prop", resp |-> None]
  /\ UNCHANGED <<mediaType, mediaError>>
  /\ UNCHANGED csvVars

\* mutant: the outcome of a call started for an earlier URL is ignored
FetchSettlesIgnoringStale(i, resp) ==
  /\ i \in 1..Len(fetches)
  /\ IF fetches[i].current
     THEN GetMediaTypeSettle(resp)
     ELSE UNCHANGED <<mediaType, mediaError>>
  /\ fetches' = RemoveAt(fetches, i)
  /\ settled' = IF fetches[i].current THEN Some(fetchMediaType(resp))
                ELSE settled
  /\ mediaLast' = [kind |-> "settle", resp |-> Some(resp)]
  /\ UNCHANGED mediaUrl
  /\ UNCHANGED csvVars

\* the fetch of the i-th pending call settles with resp, in any order
FetchSettles(i, resp) ==
  /\ i \in 1..Len(fetches)
  /\ GetMediaTypeSettle(resp)
  /\ fetches' = RemoveAt(fetches, i)
  /\ settled' = IF fetches[i].current THEN Some(fetchMediaType(resp))
                ELSE settled
  /\ mediaLast' = [kind |-> "settle", resp |-> Some(resp)]
  /\ UNCHANGED mediaUrl
  /\ UNCHANGED csvVars

\* the render of MediaViewer
MediaView ==
  IF mediaError # None /\ Get(mediaError) # ""
  THEN [kind |-> "error", src |-> "no-image.svg", text |-> Get(mediaError)]
  ELSE IF mediaType = "null"
  THEN [kind |-> "loading", src |-> "", text |-> "Loading..."]
  ELSE IF mediaType = "image"
  THEN [kind |-> "img", src |-> mediaUrl, text |-> ""]
  ELSE [kind |-> "video", src |-> mediaUrl, text |-> ""]

\* the component mounted with some URL: the effect has started its first call
InitMedia ==
  /\ mediaUrl \in Urls
  /\ mediaType = "image"
  /\ mediaError = None
  /\ fetches = <<[url |-> mediaUrl, current |-> TRUE]>>
  /\ settled = None
  /\ mediaLast = [kind |-> "mount", resp |-> None]

(***************************************************************************)
(* JavaScript values: the cells Papa.parse delivers under dynamicTyping,   *)
(* and undefined (a read past the end of an array or of a missing key).    *)
(***************************************************************************)
Str(s) == [t |-> "string", s |-> s, n |-> 0]
Num(n) == [t |-> "number", s |-> "", n |-> n]
Bool(b) == [t |-> "boolean", s |-> "", n |-> IF b THEN 1 ELSE 0]
JsNull == [t |-> "null", s |-> "", n |-> 0]
Undefined == [t |-> "undefined", s |-> "", n |-> 0]

\* ToBoolean: the truthiness `cell ? .. : ..` and `some((cell) => cell)` test
Truthy(v) ==
  CASE v.t = "string" -> v.s # ""
    [] v.t = "number" -> v.n # 0
    [] v.t = "boolean" -> v.n = 1
    [] OTHER -> FALSE

\* String(v), also the property key obj[v] uses
JsString(v) ==
  CASE v.t = "string" -> v.s
    [] v.t = "number" -> ToString(v.n)
    [] v.t = "boolean" -> (IF v.n = 1 THEN "true" ELSE "false")
    [] v.t = "null" -> "null"
    [] OTHER -> "undefined"

\* Array.prototype.join writes null and undefined as the empty string
JoinItem(v) == IF v.t \in {"null", "undefined"} THEN "" ELSE JsString(v)

RECURSIVE Join(_, _)
Join(a, sep) ==
  IF Len(a) = 0 THEN ""
  ELSE IF Len(a) = 1 THEN JoinItem(a[1])
  ELSE JoinItem(a[1]) \o sep \o Join(Tail(a), sep)

\* Array.prototype.includes (SameValueZero: no conversion between types)
Includes(a, v) == \E i \in 1..Len(a) : a[i] = v

\* a[index] with index counted from 1: undefined past the end
At(a, i) == IF i \in 1..Len(a) THEN a[i] ELSE Undefined

\* obj[key] of a row object: undefined for a missing key
Prop(obj, key) == IF key \in DOMAIN obj THEN obj[key] ELSE Undefined

(***************************************************************************)
(* Papa.parse(file, {header: false, skipEmptyLines: true,                  *)
(* dynamicTyping: true}).  A file is its lines, a line its fields as       *)
(* written; an empty line is the single empty field.                       *)
(***************************************************************************)
Digits == {"0", "1", "2", "3", "4", "5", "6", "7", "8", "9"}

DigitValue(c) ==
  CASE c = "0" -> 0 [] c = "1" -> 1 [] c = "2" -> 2 [] c = "3" -> 3
    [] c = "4" -> 4 [] c = "5" -> 5 [] c = "6" -> 6 [] c = "7" -> 7
    [] c = "8" -> 8 [] c = "9" -> 9

\* the parser's test for a number, for the unsigned integers of the model
TestFloat(s) == Len(s) > 0 /\ \A i \in 1..Len(s) : Char(s, i) \in Digits

RECURSIVE ParseFloat(_)
ParseFloat(s) ==
  IF Len(s) = 0 THEN 0
  ELSE 10 * ParseFloat(SubSeq(s, 1, Len(s) - 1)) + DigitValue(Char(s, Len(s)))

\* dynamicTyping: true
ParseDynamic(s) ==
  IF s \in {"true", "TRUE"} THEN Bool(TRUE)
  ELSE IF s \in {"false", "FALSE"} THEN Bool(FALSE)
  ELSE IF TestFloat(s) THEN Num(ParseFloat(s))
  ELSE IF s = "" THEN JsNull
  ELSE Str(s)

\* skipEmptyLines: true drops the lines that are one empty field
IsEmptyLine(line) == Len(line) = 1 /\ line[1] = ""
KeptLine(line) == ~IsEmptyLine(line)

\* results.data
PapaParse(lines) ==
  LET kept == SelectSeq(lines, KeptLine)
  IN [i \in 1..Len(kept) |->
        [j \in 1..Len(kept[i]) |-> ParseDynamic(kept[i][j])]]

(***************************************************************************)
(* CSVMediaViewer                                                          *)
(***************************************************************************)
\* the files the user can choose, and what they hold
FileNames == {"pics.csv", "empty.csv", "header.csv", "zeros.csv", "codes.csv"}

FileContent(f) ==
  CASE f = "pics.csv" ->
         << <<"id", "url">>, <<"1", "http://a/x.png">>, <<"">>, <<"2", "">> >>
    [] f = "empty.csv" -> << >>
    [] f = "header.csv" -> << <<"id", "url">> >>
    [] f = "zeros.csv" ->
         << <<"id", "url">>, <<"0", "">>, <<"", "">>, <<"7">>,
            <<"8", "http://a/z.png", "extra">> >>
    [] f = "codes.csv" ->
         << <<"01", "url", "url">>, <<"5", "http://a/p.png", "0">> >>

\* what the user can type into the URL-column input
ColumnInputs == {"", " ", "url", "id", " url "}

\* what a failed read of the file reports to the error callback
ParseErrorMessages == {"The file could not be read"}

NoValidationErrors == [file |-> None, urlColumn |-> None]

\* mutant: validateForm tests urlColumn without trimming it
ValidateErrorsUntrimmed ==
  [file |-> IF file = None THEN Some("Please upload a CSV file") ELSE None,
   urlColumn |-> IF urlColumn = ""
                 THEN Some("Please enter the URL column name") ELSE None]

\* validateForm: the errors object it builds
ValidateErrors ==
  [file |-> IF file = None THEN Some("Please upload a CSV file") ELSE None,
   urlColumn |-> IF Trim(urlColumn) = ""
                 THEN Some("Please enter the URL column name") ELSE None]

\* Object.keys(errors).length === 0
FormValid(errors) == errors.file = None /\ errors.urlColumn = None

\* handleFileSelect; f = None when the dialog is dismissed
handleFileSelect(f) ==
  /\ IF f # None
     THEN /\ file' = f
          /\ fileName' = Get(f)
          /\ validationErrors' = [validationErrors EXCEPT !.file = None]
          /\ data' = <<>>
          /\ columns' = <<>>
          /\ selectedRow' = None
          /\ parses' = [i \in 1..Len(parses) |->
                          [parses[i] EXCEPT !.stale = TRUE]]
          /\ awaiting' = TRUE
          /\ tableColumn' = None
          /\ clickedColumn' = None
     ELSE UNCHANGED <<file, fileName, validationErrors, data, columns,
                      selectedRow, parses, awaiting, tableColumn,
                      clickedColumn>>
  /\ csvLast' = [kind |-> "select", file |-> f, urlColumn |-> "", message |-> ""]
  /\ UNCHANGED <<urlColumn, error, isProcessing>>
  /\ UNCHANGED mediaVars

\* handleUrlColumnChange
handleUrlColumnChange(value) ==
  /\ urlColumn' = value
  /\ validationErrors' = [validationErrors EXCEPT !.urlColumn = None]
  /\ csvLast' = [kind |-> "type", file |-> None, urlColumn |-> value,
                 message |-> ""]
  /\ UNCHANGED <<file, data, selectedRow, columns, error, isProcessing,
                 fileName, parses, awaiting, tableColumn, clickedColumn>>
  /\ UNCHANGED mediaVars

\* processCSV up to the call of Papa.parse
processCSV ==
  IF file = None
  THEN UNCHANGED <<error, isProcessing, parses>>
  ELSE /\ error' = ""
       /\ isProcessing' = TRUE
       /\ parses' = Append(parses, [file |-> Get(file),
                                    urlColumn |-> urlColumn,
                                    stale |-> FALSE])

\* the Process button: disabled={isProcessing}
ButtonEnabled == ~isProcessing

\* handleSubmit
handleSubmit ==
  /\ ButtonEnabled
  /\ Len(parses) < MaxParses
  /\ validationErrors' = ValidateErrors
  /\ IF FormValid(ValidateErrors)
     THEN processCSV
     ELSE UNCHANGED <<error, isProcessing, parses>>
  /\ csvLast' = [kind |-> "submit", file |-> file, urlColumn |-> urlColumn,
                 message |-> ""]
  /\ UNCHANGED <<file, data, urlColumn, selectedRow, columns, fileName,
                 awaiting, tableColumn, clickedColumn>>
  /\ UNCHANGED mediaVars

\* headers.reduce((obj, header, index) => { obj[header] = row[index] }, {})
RECURSIVE RowObject(_, _, _)
RowObject(headers, row, n) ==
  IF n = 0 THEN <<>>
  ELSE (JsString(headers[n]) :> At(row, n)) @@ RowObject(headers, row, n - 1)

\* .filter((row) => row.some((cell) => cell))
SomeCell(row) == \E j \in 1..Len(row) : Truthy(row[j])

\* results.data.slice(1).filter(..).map(..)
ParsedData(results) ==
  LET headers == results[1]
      rows == SelectSeq(Tail(results), SomeCell)
  IN [i \in 1..Len(rows) |-> RowObject(headers, rows[i], Len(headers))]

MissingColumnMessage(column, headers) ==
  "Column \"" \o column \o "\" not found in CSV file. Available columns: "
    \o Join(headers, ", ")

\* mutant: the missing-column branch returns without resetting isProcessing
CompleteMissingColumnStuck(p, headers) ==
  /\ error' = MissingColumnMessage(p.urlColumn, headers)
  /\ UNCHANGED <<isProcessing, columns, data, tableColumn>>

\* complete: the named column is not among the headers
CompleteMissingColumn(p, headers) ==
  /\ error' = MissingColumnMessage(p.urlColumn, headers)
  /\ isProcessing' = FALSE
  /\ UNCHANGED <<columns, data, tableColumn>>

\* complete: the rows are stored
CompleteRows(p, results) ==
  /\ columns' = results[1]
  /\ data' = ParsedData(results)
  /\ isProcessing' = FALSE
  /\ tableColumn' = Some(p.urlColumn)
  /\ UNCHANGED error

\* complete: results.data is empty
CompleteNoData ==
  /\ error' = "No data found in CSV file"
  /\ isProcessing' = FALSE
  /\ UNCHANGED <<columns, data, tableColumn>>

\* the complete callback of the parse p
Complete(p, results) ==
  IF Len(results) > 0
  THEN IF ~Includes(results[1], Str(p.urlColumn))
       THEN CompleteMissingColumn(p, results[1])
       ELSE CompleteRows(p, results)
  ELSE CompleteNoData

\* Papa.parse calls complete for the i-th pending parse
ParseComplete(i) ==
  /\ i \in 1..Len(parses)
  /\ Complete(parses[i], PapaParse(FileContent(parses[i].file)))
  /\ parses' = RemoveAt(parses, i)
  /\ awaiting' = (awaiting /\ parses[i].stale)
  /\ csvLast' = [kind |-> "complete", file |-> Some(parses[i].file),
                 urlColumn |-> parses[i].urlColumn, message |-> ""]
  /\ UNCHANGED <<file, urlColumn, selectedRow, validationErrors, fileName,
                 clickedColumn>>
  /\ UNCHANGED mediaVars

\* Papa.parse calls error for the i-th pending parse
ParseError(i, message) ==
  /\ i \in 1..Len(parses)
  /\ error' = "Error parsing CSV: " \o message
  /\ isProcessing' = FALSE
  /\ parses' = RemoveAt(parses, i)
  /\ csvLast' = [kind |-> "error", file |-> Some(parses[i].file),
                 urlColumn |-> parses[i].urlColumn, message |-> message]
  /\ UNCHANGED <<file, data, urlColumn, selectedRow, columns,
                 validationErrors, fileName, awaiting, tableColumn,
                 clickedColumn>>
  /\ UNCHANGED mediaVars

\* {data.length > 0 && <table>}: the rows that can be clicked
TableShown == Len(data) > 0

\* handleRowClick on the i-th row of the table
handleRowClick(i) ==
  /\ TableShown
  /\ i \in 1..Len(data)
  /\ selectedRow' = Some(data[i])
  /\ clickedColumn' = tableColumn
  /\ csvLast' = [kind |-> "click", file |-> None, urlColumn |-> "",
                 message |-> ""]
  /\ UNCHANGED <<file, data, urlColumn, columns, error, isProcessing,
                 validationErrors, fileName, parses, awaiting, tableColumn>>
  /\ UNCHANGED mediaVars

\* {selectedRow && urlColumn && <Card>}
PreviewShown == selectedRow # None /\ urlColumn # ""

\* the media preview of the panel
PreviewMedia ==
  LET cell == Prop(Get(selectedRow), urlColumn)
  IN IF Truthy(cell)
     THEN [kind |-> "img", src |-> JsString(cell)]
     ELSE [kind |-> "icon", src |-> ""]

\* the row details of the panel: the entries it lists
PreviewDetails ==
  {<<k, Get(selectedRow)[k]>> : k \in DOMAIN Get(selectedRow) \ {urlColumn}}

\* rows of the table a click can land on
MaxRows == 3

InitCSV ==
  /\ file = None
  /\ data = <<>>
  /\ urlColumn = ""
  /\ selectedRow = None
  /\ columns = <<>>
  /\ error = ""
  /\ isProcessing = FALSE
  /\ validationErrors = NoValidationErrors
  /\ fileName = ""
  /\ parses = <<>>
  /\ awaiting = FALSE
  /\ tableColumn = None
  /\ clickedColumn = None
  /\ csvLast = [kind |-> "mount", file |-> None, urlColumn |-> "",
                message |-> ""]

Init == InitMedia /\ InitCSV

NextMedia ==
  \/ \E u \in Urls : SetMediaUrl(u)
  \/ \E i \in 1..MaxFetches, resp \in Responses : FetchSettles(i, resp)

NextCSV ==
  \/ \E f \in {None} \cup {Some(n) : n \in FileNames} : handleFileSelect(f)
  \/ \E value \in ColumnInputs : handleUrlColumnChange(value)
  \/ handleSubmit
  \/ \E i \in 1..MaxParses : ParseComplete(i)
  \/ \E i \in 1..MaxParses, m \in ParseErrorMessages : ParseError(i, m)
  \/ \E i \in 1..MaxRows : handleRowClick(i)

(***************************************************************************)
(* MediaViewer: properties.                                                *)
(***************************************************************************)
\* the response of the step just taken, when that step settled a fetch
SettledWith(resp) == mediaLast.kind = "settle" /\ mediaLast.resp = Some(resp)

HeaderHasPrefix(resp, prefix) ==
  /\ ~resp.rejected
  /\ resp.contentType # None
  /\ \E n \in 0..Len(Get(resp.contentType)) :
       SubSeq(Get(resp.contentType), 1, n) = prefix

\* C1: when a fetch settles, a content-type starting with "image" gives
\* mediaType = "image" and no error, one starting with "video" gives
\* mediaType = "video" and no error, and every other content-type, a missing
\* header or a rejected fetch gives the error view (message and placeholder
\* image), whatever mediaType was before.
C1_SettleClassifies ==
  [][\A resp \in Responses :
       SettledWith(resp)' =>
         /\ HeaderHasPrefix(resp, "image") =>
              /\ mediaType' = "image" /\ mediaError' = None
              /\ MediaView' = [kind |-> "img", src |-> mediaUrl', text |-> ""]
         /\ HeaderHasPrefix(resp, "video") =>
              /\ mediaType' = "video" /\ mediaError' = None
              /\ MediaView' = [kind |-> "video", src |-> mediaUrl', text |-> ""]
         /\ (~HeaderHasPrefix(resp, "image") /\ ~HeaderHasPrefix(resp, "video")) =>
              /\ mediaError' # None
              /\ MediaView'.kind = "error"
              /\ MediaView'.src = "no-image.svg"
              /\ MediaView'.text # ""]_vars

\* C1, witness: a response with an unsupported content-type has settled
\* while mediaType held "video", and the error view is shown.
C1_Witness ==
  /\ SettledWith([rejected |-> FALSE, contentType |-> Some("text/html")])
  /\ mediaType = "video"
  /\ MediaView.kind = "error"

\* what the state shows agrees with the outcome `type` of a call
Shows(type) ==
  IF type = "throw" THEN mediaError # None
  ELSE mediaError = None /\ mediaType = type

\* C9: every change of the mediaUrl prop starts exactly one fetch and no
\* other step starts one; a pending fetch leaves only by settling, one at a
\* time; and the outcome of a fetch started for an earlier URL is written to
\* mediaType/error like any other.
C9_NoCancelNoIgnore ==
  [][/\ mediaUrl' # mediaUrl =>
          /\ Len(fetches') = Len(fetches) + 1
          /\ fetches'[Len(fetches')].url = mediaUrl'
          /\ \A i \in 1..Len(fetches) : fetches'[i].url = fetches[i].url
     /\ mediaUrl' = mediaUrl => Len(fetches') <= Len(fetches)
     /\ Len(fetches') < Len(fetches) =>
          /\ mediaLast'.kind = "settle"
          /\ \E i \in 1..Len(fetches) :
               /\ fetches' = RemoveAt(fetches, i)
               /\ ~fetches[i].current =>
                    \A resp \in Responses :
                      SettledWith(resp)' => Shows(fetchMediaType(resp))']_vars

\* C9, witness: every fetch has settled, the one for the present URL
\* included, and what is shown is not the outcome of that one.
C9_Witness ==
  /\ fetches = <<>>
  /\ settled # None
  /\ ~Shows(Get(settled))

(***************************************************************************)
(* CSVMediaViewer: properties.                                             *)
(***************************************************************************)
\* the fields of a line as written, and the lines that are not blank
HasField(line) == \E j \in 1..Len(line) : line[j] # ""
WrittenLines(f) == SelectSeq(FileContent(f), HasField)
FieldSet(line) == {line[j] : j \in 1..Len(line)}

RECURSIVE JoinWritten(_, _)
JoinWritten(a, sep) ==
  IF Len(a) = 0 THEN ""
  ELSE IF Len(a) = 1 THEN a[1]
  ELSE a[1] \o sep \o JoinWritten(Tail(a), sep)

Contains(s, sub) ==
  \E k \in 1..(Len(s) - Len(sub) + 1) : SubSeq(s, k, k + Len(sub) - 1) = sub

\* a stored value is the field as written (a missing field is undefined)
IsField(v, line, j) ==
  IF j \in 1..Len(line) THEN JoinItem(v) = line[j] /\ v.t # "undefined"
  ELSE v.t = "undefined"

\* the step just taken was the complete callback of a parse of f under col
Completed(f, col) ==
  /\ csvLast.kind = "complete"
  /\ csvLast.file = Some(f)
  /\ csvLast.urlColumn = col

\* C2: for a file whose first line is the header and names the requested
\* column exactly, the complete callback leaves no banner error and sets
\* data to one row per later non-blank line, in file order, whose keys are
\* exactly the header names, each mapped to the field at its position.
C2_RowsPerLine ==
  [][\A f \in FileNames, col \in ColumnInputs :
       (/\ Completed(f, col)'
        /\ Len(FileContent(f)) > 0
        /\ HasField(FileContent(f)[1])
        /\ col \in FieldSet(FileContent(f)[1])) =>
         LET header == FileContent(f)[1]
             lines == Tail(WrittenLines(f))
         IN /\ error' = ""
            /\ Len(data') = Len(lines)
            /\ \A i \in 1..Len(lines) :
                 /\ DOMAIN data'[i] = FieldSet(header)
                 /\ \A j \in 1..Len(header) :
                      IsField(data'[i][header[j]], lines[i], j)]_vars

\* C3: when the column entered at submit is not a header name, the complete
\* callback sets a banner that names the column and lists the header names
\* as written, in order; data and columns keep their values and
\* isProcessing is false.
C3_MissingColumn ==
  [][\A f \in FileNames, col \in ColumnInputs :
       (/\ Completed(f, col)'
        /\ Len(WrittenLines(f)) > 0
        /\ col \notin FieldSet(WrittenLines(f)[1])) =>
         /\ Contains(error', "\"" \o col \o "\"")
         /\ Contains(error', JoinWritten(WrittenLines(f)[1], ", "))
         /\ data' = data
         /\ columns' = columns
         /\ ~isProcessing']_vars

\* C4: from handleFileSelect with a file until a parse of that file
\* completes, data and columns are empty and nothing is selected.
C4_ClearedUntilParsed ==
  awaiting => data = <<>> /\ columns = <<>> /\ selectedRow = None

\* the form as handleSubmit finds it
NoFileChosen == file = None
BlankColumn == \A k \in 1..Len(urlColumn) : Char(urlColumn, k) \in WhiteSpace

\* C5: a Process click on an invalid form sets validationErrors to exactly
\* the failing fields, starts no parse and leaves data, columns,
\* selectedRow, the banner and isProcessing alone; on a valid form it
\* empties validationErrors and starts exactly one parse.
C5_SubmitValidates ==
  [][csvLast'.kind = "submit" =>
       /\ (NoFileChosen \/ BlankColumn) =>
            /\ (validationErrors'.file # None) <=> NoFileChosen
            /\ (validationErrors'.urlColumn # None) <=> BlankColumn
            /\ parses' = parses
            /\ UNCHANGED <<data, columns, selectedRow, error, isProcessing>>
       /\ ~(NoFileChosen \/ BlankColumn) =>
            /\ validationErrors' = NoValidationErrors
            /\ Len(parses') = Len(parses) + 1
            /\ SubSeq(parses', 1, Len(parses)) = parses
            /\ parses'[Len(parses')].file = Get(file)]_vars

\* C5, witness: Process was clicked with a file chosen and a column of
\* blanks only; the column field alone is reported and no parse runs.
C5_Witness ==
  /\ csvLast.kind = "submit"
  /\ file # None
  /\ urlColumn = " "
  /\ validationErrors.file = None
  /\ validationErrors.urlColumn # None
  /\ parses = <<>>

\* C6: the complete callback of a file without data rows (no line, or the
\* header line only) sets the banner "No data found in CSV file" and leaves
\* no rows in the table; the error callback puts the parser's message in
\* the banner.
C6_NoDataOrParserError ==
  [][/\ \A f \in FileNames :
          (/\ csvLast'.kind = "complete"
           /\ csvLast'.file = Some(f)
           /\ Len(WrittenLines(f)) <= 1) =>
            /\ error' = "No data found in CSV file"
            /\ data' = <<>>
     /\ csvLast'.kind = "error" => Contains(error', csvLast'.message)]_vars

\* C7: while a row is selected, the preview panel is shown; it renders the
\* row's cell under the column the table was processed with as an image
\* when that cell is non-empty (here: truthy, the test the code applies) and
\* the placeholder icon when it is empty, and lists every other column of
\* the row.
C7_PreviewOfProcessedColumn ==
  selectedRow # None =>
    LET row == Get(selectedRow)
        col == Get(clickedColumn)
        cell == Prop(row, col)
    IN /\ PreviewShown
       /\ Truthy(cell) =>
            PreviewMedia = [kind |-> "img", src |-> JsString(cell)]
       /\ ~Truthy(cell) => PreviewMedia.kind = "icon"
       /\ PreviewDetails = {<<k, row[k]>> : k \in DOMAIN row \ {col}}

\* C8: selectedRow is null or one of the rows of data.
C8_SelectionInTable ==
  selectedRow = None \/ \E i \in 1..Len(data) : data[i] = Get(selectedRow)

\* C10: at most one parse is in flight, isProcessing is true exactly while
\* one is, and once isProcessing is true it becomes false again (the parser
\* fires the callback of every parse).
C10_ProcessingEnds ==
  /\ [](Len(parses) <= 1)
  /\ [](isProcessing <=> Len(parses) = 1)
  /\ (isProcessing ~> ~isProcessing)

\* C10, witness: a parse found the named column missing, and its callback
\* has reset isProcessing.
C10_Witness ==
  /\ csvLast.kind = "complete"
  /\ Contains(error, "not found in CSV file")
  /\ ~isProcessing
  /\ parses = <<>>

\* MediaViewer alone on the page
SpecMedia == Init /\ [][NextMedia]_vars

\* CSVMediaViewer alone on the page
SpecCSV == Init /\ [][NextCSV]_vars

\* a parse callback of CSVMediaViewer fires
ParseCallback ==
  \E i \in 1..MaxParses :
    ParseComplete(i) \/ \E m \in ParseErrorMessages : ParseError(i, m)

\* the parser fires the one callback of every parse it was given
FairSpecCSV == SpecCSV /\ WF_vars(ParseCallback)

\* both components mounted in one page
Next == NextMedia \/ NextCSV

Spec == Init /\ [][Next]_vars
====
